---- MODULE Spec2Model ----
(***************************************************************************)
(* Risk Assessment Engine of the blockchain AML system.                    *)
(*                                                                         *)
(*   gateway    src/app.py             api_predict and its helpers         *)
(*   ML service src/ml_service/app.py  train_models, predict               *)
(*                                                                         *)
(* Real numbers are fixed-point integers in units of 1/Scale (10^-4), so   *)
(* 0.4 is 4000 and 0.95 is 9500.  Every constant of the code is a multiple *)
(* of that unit, and the classifier's probability, the only free real, is  *)
(* drawn from a set of such values.  Binary floating-point representation  *)
(* error is not modelled.                                                  *)
(*                                                                         *)
(* Gas fees are kept in gwei (10^-9 ETH): gas_limit * gas_price_gwei is    *)
(* the fee in gwei, and 0.01 ETH is 10^7 gwei.                             *)
(*                                                                         *)
(* Addresses are sequences of one-character strings.                       *)
(***************************************************************************)
EXTENDS Integers, Sequences, FiniteSets, TLC

VARIABLES
  lifespan,         \* the ASGI host runs the startup event (uvicorn does)
  svc_pc,           \* ML service: position in startup_event / train_models
  models,           \* ML service global: name -> fitted model
  scaler,           \* ML service global: "None", "unfitted" or "fitted"
  feature_names,    \* ML service global
  gw_pc,            \* gateway: position in api_predict
  session_ok,       \* gateway: 'user_id' in session
  data,             \* gateway: request.json
  transaction_details,
  address_analysis,
  ml_data,          \* the feature payload posted to the ML service
  ml_response,      \* what requests.post gave: a response or an exception
  ml_result,
  final_result,     \* the response of api_predict
  ml_calls,         \* gateway: requests.post calls made for this request
  fallback_calls,   \* gateway: enhanced_fallback_prediction calls made for it
  health_response,  \* the last response of GET /health
  gen               \* generate_synthetic_data: position, rows, labels, table

svc_vars == <<lifespan, svc_pc, models, scaler, feature_names>>
gw_vars  == <<gw_pc, session_ok, data, transaction_details, address_analysis,
              ml_data, ml_response, ml_result, final_result,
              ml_calls, fallback_calls>>
vars     == <<lifespan, svc_pc, models, scaler, feature_names,
              gw_pc, session_ok, data, transaction_details, address_analysis,
              ml_data, ml_response, ml_result, final_result,
              ml_calls, fallback_calls, health_response, gen>>

Scale == 10^4

Min(a, b) == IF a <= b THEN a ELSE b
Max(a, b) == IF a >= b THEN a ELSE b

\* dict.get(key, default)
Get(d, key, default) == IF key \in DOMAIN d THEN d[key] ELSE default

(***************************************************************************)
(* Addresses                                                               *)
(***************************************************************************)
Rep(c, n) == [i \in 1..n |-> c]

Digits10 == <<"1", "2", "3", "4", "5", "6", "7", "8", "9", "0">>

\* "0x1234567890123456789012345678901234567890" (test_enhanced_system.py:81)
AddrOrdinary == <<"0", "x">> \o Digits10 \o Digits10 \o Digits10 \o Digits10

\* "0x000000000000000000000000000000000000000a" (test_enhanced_system.py:113)
AddrZeroA == <<"0", "x">> \o Rep("0", 39) \o <<"a">>

\* "0xffffffffffffffffffffffffffffffffffffffff" (test_enhanced_system.py:114)
AddrAllF == <<"0", "x">> \o Rep("f", 40)

\* "0x1234567890123456789012345678901234567cde" (test_enhanced_system.py:146)
AddrCde == <<"0", "x">> \o Digits10 \o Digits10 \o Digits10
             \o <<"1", "2", "3", "4", "5", "6", "7", "c", "d", "e">>

\* the same address with its hex letters in upper case
AddrCdeUpper == <<"0", "x">> \o Digits10 \o Digits10 \o Digits10
                  \o <<"1", "2", "3", "4", "5", "6", "7", "C", "D", "E">>

\* the absent address: data.get('sender_address', '')
AddrEmpty == <<>>

\* "0x0000000000000000000000000000000000000a": zero-prefixed, 40 characters
AddrZero40 == <<"0", "x">> \o Rep("0", 37) \o <<"a">>

\* "0X000000000000000000000000000000000000000F": 42 characters in upper case
AddrZeroUpperF == <<"0", "X">> \o Rep("0", 39) \o <<"F">>

\* "0x000123456789012345678901234567890123456b": zero-prefixed, many distinct
\* characters
AddrZeroMixed == <<"0", "x", "0", "0", "0">> \o Digits10 \o Digits10 \o Digits10
                   \o <<"1", "2", "3", "4", "5", "6", "b">>

\* "0x00" and "0x000f": shorter than the 10 characters compared for relatedness
AddrShort  == <<"0", "x", "0", "0">>
AddrShortF == <<"0", "x", "0", "0", "0", "f">>

\* "000f": no 0x prefix
AddrNoPrefix == <<"0", "0", "0", "f">>

\* "0x12345678": exactly the first 10 characters of AddrOrdinary
AddrTen == <<"0", "x", "1", "2", "3", "4", "5", "6", "7", "8">>

AllAddresses ==
  {AddrOrdinary, AddrZeroA, AddrAllF, AddrCde, AddrCdeUpper, AddrEmpty,
   AddrZero40, AddrZeroUpperF, AddrZeroMixed, AddrShort, AddrShortF,
   AddrNoPrefix, AddrTen}

\* str.lower() on one character
Lower(c) ==
  CASE c = "A" -> "a" [] c = "B" -> "b" [] c = "C" -> "c" [] c = "D" -> "d"
    [] c = "E" -> "e" [] c = "F" -> "f" [] c = "X" -> "x" [] OTHER -> c

LowerStr(s) == [i \in 1..Len(s) |-> Lower(s[i])]

\* s.startswith(p)
StartsWith(s, p) == Len(s) >= Len(p) /\ \A i \in 1..Len(p) : s[i] = p[i]

\* s[:n]
Prefix(s, n) == SubSeq(s, 1, Min(n, Len(s)))

\* mutant: the length of the address is not looked at
is_contract_address_AnyLength(address) ==
  IF address = <<>>
  THEN FALSE
  ELSE Lower(address[Len(address)]) \in {"c", "d", "e", "f"}

is_contract_address(address) ==
  IF address = <<>> \/ Len(address) # 42
  THEN FALSE
  ELSE Lower(address[Len(address)]) \in {"c", "d", "e", "f"}

\* mutant: the zero prefix is looked for without lower()
calculate_address_risk_CaseSensitive(address) ==
  IF address = <<>>
  THEN 5000
  ELSE LET zero == IF StartsWith(address, <<"0", "x", "0", "0", "0">>)
                   THEN 3000 ELSE 0
           body == {address[i] : i \in 3..Len(address)}
           low  == IF Cardinality(body) < 10 THEN 2000 ELSE 0
       IN Min(zero + low, Scale)

calculate_address_risk(address) ==
  IF address = <<>>
  THEN 5000
  ELSE LET zero == IF StartsWith(LowerStr(address), <<"0", "x", "0", "0", "0">>)
                   THEN 3000 ELSE 0
           body == {address[i] : i \in 3..Len(address)}
           low  == IF Cardinality(body) < 10 THEN 2000 ELSE 0
       IN Min(zero + low, Scale)

\* mutant: the whole addresses are compared
are_addresses_related_Whole(sender, receiver) ==
  IF sender = <<>> \/ receiver = <<>>
  THEN FALSE
  ELSE sender = receiver

are_addresses_related(sender, receiver) ==
  IF sender = <<>> \/ receiver = <<>>
  THEN FALSE
  ELSE Prefix(sender, 10) = Prefix(receiver, 10)

analyze_addresses(sender, receiver) ==
  [sender_is_contract   |-> is_contract_address(sender),
   receiver_is_contract |-> is_contract_address(receiver),
   sender_risk_score    |-> calculate_address_risk(sender),
   receiver_risk_score  |-> calculate_address_risk(receiver),
   addresses_related    |-> are_addresses_related(sender, receiver)]

(***************************************************************************)
(* Fallback Predictor (gateway, rule based)                                *)
(***************************************************************************)
\* risk_factors of enhanced_fallback_prediction, counted in halves (the
\* contract rule adds 0.5): 2 * risk_factors.
FallbackRiskFactors(d) ==
    (IF d.amount > 10000 THEN 2 ELSE 0)
  + (IF d.hour_of_day < 6 \/ d.hour_of_day > 22 THEN 2 ELSE 0)
  + (IF d.frequency_24h > 10 THEN 2 ELSE 0)
  + (IF d.gas_price > 100 THEN 2 ELSE 0)
  + (IF d.is_contract THEN 1 ELSE 0)

FallbackRiskReasons(d) ==
     (IF d.amount > 10000 THEN <<"High transaction amount">> ELSE <<>>)
  \o (IF d.hour_of_day < 6 \/ d.hour_of_day > 22
      THEN <<"Unusual transaction time">> ELSE <<>>)
  \o (IF d.frequency_24h > 10 THEN <<"High transaction frequency">> ELSE <<>>)
  \o (IF d.gas_price > 100 THEN <<"Unusually high gas price">> ELSE <<>>)
  \o (IF d.is_contract THEN <<"Interacting with smart contract">> ELSE <<>>)

\* mutant: the verdict needs more than two risk factors
FallbackIsIllicit_Strict(half2) == half2 > 4

\* is_illicit = risk_factors >= 2            (half2 = 2 * risk_factors)
FallbackIsIllicit(half2) == half2 >= 4

\* confidence = 0.7 + (min(risk_factors, 3) * 0.1), before the 0.95 cap
FallbackConfidence(half2) == 7000 + Min(half2, 6) * 500

\* risk_score = min(risk_factors / 4.0, 1.0)
FallbackRiskScore(half2) == Min(half2 * 1250, Scale)

enhanced_fallback_prediction(d) ==
  LET half2      == FallbackRiskFactors(d)
      is_illicit == FallbackIsIllicit(half2)
      confidence == FallbackConfidence(half2)
      risk_score == FallbackRiskScore(half2)
  IN [prediction   |-> IF is_illicit THEN 1 ELSE 0,
      confidence   |-> Min(confidence, 9500),
      risk_score   |-> risk_score,
      risk_factors |-> FallbackRiskReasons(d),
      source       |-> "enhanced_fallback_model",
      models       |->
        [random_forest    |-> [prediction |-> IF is_illicit THEN 1 ELSE 0,
                               confidence |-> confidence],
         isolation_forest |-> [prediction    |-> IF half2 > 3 THEN 1 ELSE 0,
                               anomaly_score |-> risk_score]],
      timestamp    |-> "now"]

(***************************************************************************)
(* Risk Aggregator and Recommendation Generator (gateway)                  *)
(***************************************************************************)
\* n / d rounded to the nearest integer, ties to even: round(x, k)
RoundDiv(n, d) ==
  LET q == n \div d
      r == n % d
  IN IF 2 * r < d THEN q
     ELSE IF 2 * r > d THEN q + 1
     ELSE IF q % 2 = 0 THEN q ELSE q + 1

\* round(overall_risk, 3), still in units of 1/Scale
Round3(x) == 10 * RoundDiv(x, 10)

\* gas_risk = 0.1 if transaction_details['gas_fee_eth'] > 0.01 else 0
\* (gas_fee_eth is the reported fee, in units of 10^-6 ETH)
\* mutant: a high gas fee adds 0.2
GasRisk_Double(gas_fee_eth) == IF gas_fee_eth > 10000 THEN 2000 ELSE 0

GasRisk(gas_fee_eth) == IF gas_fee_eth > 10000 THEN 1000 ELSE 0

\* mutant: the sum is not capped at 1.0
OverallRisk_NoClamp(base_risk, address_risk, gas_risk) ==
  base_risk + (address_risk * 3) \div 10 + gas_risk

\* mutant: the address risk enters the sum with weight 1
OverallRisk_AddressUnweighted(base_risk, address_risk, gas_risk) ==
  Min(base_risk + address_risk + gas_risk, Scale)

\* overall_risk = min(base_risk + (address_risk * 0.3) + gas_risk, 1.0)
OverallRisk(base_risk, address_risk, gas_risk) ==
  Min(base_risk + (address_risk * 3) \div 10 + gas_risk, Scale)

RiskLevel(overall_risk) ==
  IF overall_risk > 7000 THEN "HIGH"
  ELSE IF overall_risk > 4000 THEN "MEDIUM"
  ELSE "LOW"

calculate_risk_assessment(ml_res, details, analysis) ==
  LET base_risk    == Get(ml_res, "risk_score", 0)
      address_risk == (analysis.sender_risk_score
                        + analysis.receiver_risk_score) \div 2
      gas_risk     == GasRisk(details.gas_fee_eth)
      overall_risk == OverallRisk(base_risk, address_risk, gas_risk)
  IN [overall_risk_score |-> Round3(overall_risk),
      risk_level         |-> RiskLevel(overall_risk),
      ml_risk            |-> base_risk,
      address_risk       |-> address_risk,
      gas_risk           |-> gas_risk]

RecAlert   == "ALERT: Transaction flagged as potentially illicit"
RecReview  == "Recommend manual review by compliance team"
RecKyc     == "Consider additional KYC verification"
RecGas     == "High gas fee detected - verify transaction urgency"
RecLarge   == "Large transaction amount - enhanced monitoring recommended"
RecRoutine == "Transaction appears normal - routine processing"

\* mutant: the routine line is added whenever the prediction is not illicit
generate_recommendations_RoutineUnlessIllicit(ml_res, details) ==
  LET ill == "prediction" \in DOMAIN ml_res /\ ml_res.prediction = 1
  IN    (IF ill THEN <<RecAlert, RecReview, RecKyc>> ELSE <<>>)
     \o (IF details.gas_fee_eth > 5000 THEN <<RecGas>> ELSE <<>>)
     \o (IF details.amount > 10000 THEN <<RecLarge>> ELSE <<>>)
     \o (IF ill THEN <<>> ELSE <<RecRoutine>>)

generate_recommendations(ml_res, details) ==
  LET recs ==
           (IF "prediction" \in DOMAIN ml_res /\ ml_res.prediction = 1
            THEN <<RecAlert, RecReview, RecKyc>> ELSE <<>>)
        \o (IF details.gas_fee_eth > 5000 THEN <<RecGas>> ELSE <<>>)
        \o (IF details.amount > 10000 THEN <<RecLarge>> ELSE <<>>)
  IN IF recs = <<>> THEN <<RecRoutine>> ELSE recs

(***************************************************************************)
(* Feature Extractor (gateway), api_predict lines 153-202                  *)
(***************************************************************************)
\* gas_limit * gas_price_gwei: the fee in gwei (gas_fee_wei / 10^9)
GasFeeGwei(gas_limit, gas_price_gwei) == gas_limit * gas_price_gwei

\* 'high_gas_fee': 1 if gas_fee_eth > 0.01 else 0   (0.01 ETH = 10^7 gwei)
HighGasFee(gas_limit, gas_price_gwei) ==
  IF GasFeeGwei(gas_limit, gas_price_gwei) > 10^7 THEN 1 ELSE 0

TransactionDetails(d) ==
  LET gas_limit      == Get(d, "gas_limit", 21000)
      gas_price_gwei == Get(d, "gas_price_gwei", 20)
      fee            == GasFeeGwei(gas_limit, gas_price_gwei)
  IN [sender_address   |-> Get(d, "sender_address", <<>>),
      receiver_address |-> Get(d, "receiver_address", <<>>),
      amount           |-> Get(d, "amount", 1000),
      token_type       |-> Get(d, "token_type", "ETH"),
      gas_limit        |-> gas_limit,
      gas_price_gwei   |-> gas_price_gwei,
      gas_fee_gwei     |-> fee,                    \* gas_fee_wei / 10^9
      gas_fee_eth      |-> RoundDiv(fee, 1000),    \* round(.., 6), in 10^-6 ETH
      gas_fee_usd      |-> RoundDiv(fee, 5000),    \* round(.. * 2000, 2), in cents
      block_number     |-> "N/A",
      network          |-> "Localhost Anvil",
      timestamp        |-> "now"]

MlData(d, analysis) ==
  [amount                |-> Get(d, "amount", 1000),
   frequency_24h         |-> Get(d, "frequency_24h", 5),
   unique_counterparties |-> Get(d, "unique_counterparties", 3),
   hour_of_day           |-> Get(d, "hour_of_day", 12),
   gas_price             |-> Get(d, "gas_price_gwei", 20),
   is_contract           |-> analysis.receiver_is_contract,
   account_age_days      |-> Get(d, "account_age_days", 365),
   balance               |-> Get(d, "balance", 10000),
   token_type_numeric    |-> IF Get(d, "token_type", "ETH") = "ETH" THEN 0 ELSE 1,
   high_gas_fee          |-> HighGasFee(Get(d, "gas_limit", 21000),
                                        Get(d, "gas_price_gwei", 20))]

(***************************************************************************)
(* Ensemble Predictor (ML service)                                         *)
(***************************************************************************)
FeatureNames ==
  <<"amount", "frequency_24h", "unique_counterparties", "hour_of_day",
    "gas_price", "is_contract", "account_age_days", "balance",
    "token_type_numeric", "high_gas_fee">>

\* mutant: a gas price of exactly 50 is flagged too
TrainingHighGasFee_Inclusive(gas_price) == IF gas_price >= 50 THEN 1 ELSE 0

\* transaction['high_gas_fee'] = 1 if transaction['gas_price'] > 50 else 0
TrainingHighGasFee(gas_price) == IF gas_price > 50 THEN 1 ELSE 0

\* the features list predict builds from the payload
PredictFeatures(t) ==
  <<Get(t, "amount", 100), Get(t, "frequency_24h", 5),
    Get(t, "unique_counterparties", 3), Get(t, "hour_of_day", 12),
    Get(t, "gas_price", 20), Get(t, "is_contract", 0),
    Get(t, "account_age_days", 365), Get(t, "balance", 1000),
    Get(t, "token_type_numeric", 0), Get(t, "high_gas_fee", 0)>>

\* RandomForestClassifier.predict: the class of the larger probability
\* (class 0 on a tie); proba1 is predict_proba[1], predict_proba[0] the rest
RfPred(proba1) == IF proba1 > Scale - proba1 THEN 1 ELSE 0

\* iso_pred_binary = 1 if iso_pred == -1 else 0
IsoPredBinary(iso_pred) == IF iso_pred = -1 THEN 1 ELSE 0

\* mutant: both models must agree for an illicit verdict
EnsemblePred_Both(rf_pred, iso_pred_binary) ==
  IF rf_pred + iso_pred_binary >= 2 THEN 1 ELSE 0

\* ensemble_pred = 1 if (rf_pred + iso_pred_binary) >= 1 else 0
EnsemblePred(rf_pred, iso_pred_binary) ==
  IF rf_pred + iso_pred_binary >= 1 THEN 1 ELSE 0

\* mutant: the risk score follows the ensemble verdict
EnsembleRiskScore_FromVote(proba0, proba1, ensemble_pred) ==
  IF ensemble_pred = 1 THEN Max(proba0, proba1) ELSE Min(proba0, proba1)

\* "risk_score": float(rf_proba[1])
EnsembleRiskScore(proba0, proba1, ensemble_pred) == proba1

\* "confidence": float(max(rf_proba))
EnsembleConfidence(proba0, proba1, ensemble_pred) == Max(proba0, proba1)

PredictRiskFactors(t) ==
     (IF Get(t, "amount", 0) > 10000 THEN <<"High transaction amount">> ELSE <<>>)
  \o (IF Get(t, "hour_of_day", 12) < 6 \/ Get(t, "hour_of_day", 12) > 22
      THEN <<"Unusual transaction time">> ELSE <<>>)
  \o (IF Get(t, "frequency_24h", 0) > 10
      THEN <<"High transaction frequency">> ELSE <<>>)
  \o (IF Get(t, "gas_price", 0) > 50 THEN <<"Unusually high gas price">> ELSE <<>>)
  \o (IF Get(t, "is_contract", FALSE) = TRUE
      THEN <<"Smart contract interaction">> ELSE <<>>)

\* the result dict of predict, for the classifier's probability of the illicit
\* class and the detector's output (-1 outlier, 1 inlier) on the scaled features
PredictResult(t, proba1, iso_pred) ==
  LET proba0          == Scale - proba1
      rf_pred         == RfPred(proba1)
      iso_pred_binary == IsoPredBinary(iso_pred)
      ensemble_pred   == EnsemblePred(rf_pred, iso_pred_binary)
  IN [prediction   |-> ensemble_pred,
      confidence   |-> EnsembleConfidence(proba0, proba1, ensemble_pred),
      risk_score   |-> EnsembleRiskScore(proba0, proba1, ensemble_pred),
      risk_factors |-> PredictRiskFactors(t),
      models       |->
        [random_forest    |->
           [prediction    |-> rf_pred,
            confidence    |-> Max(proba0, proba1),
            probabilities |-> [normal |-> proba0, illicit |-> proba1]],
         isolation_forest |->
           [prediction    |-> iso_pred_binary,
            anomaly_score |-> IF iso_pred < 0 THEN -iso_pred ELSE iso_pred]],
      timestamp    |-> "now",
      source       |-> "ml_service"]

NoValue == [kind |-> "none"]

\* generate_synthetic_data has not been called
GenIdle == [pc |-> "idle"]

NoModels == [n \in {} |-> "fitted"]

\* the exception raised inside the try block of predict, if any, for the
\* service's globals; a status of 0 marks an exception that is no HTTPException
PredictRaised(t, mdls, sclr, names) ==
  IF DOMAIN mdls = {}
  THEN [kind |-> "exception", status |-> 503, detail |-> "Models not loaded"]
  ELSE IF Len(PredictFeatures(t)) # Len(names)
  THEN [kind |-> "exception", status |-> 400,
        detail |-> "Expected n features, got m"]
  ELSE IF sclr # "fitted"
  THEN [kind |-> "exception", status |-> 0, detail |-> "scaler cannot transform"]
  ELSE IF ~({"random_forest", "isolation_forest"} \subseteq DOMAIN mdls)
  THEN [kind |-> "exception", status |-> 0, detail |-> "KeyError"]
  ELSE NoValue

\* except Exception as e: raise HTTPException(status_code=400, detail=str(e))
PredictExcept(e) == [kind |-> "response", status |-> 400,
                     body |-> [detail |-> e.detail]]

\* the HTTP response of POST /predict
PredictResponse(t, mdls, sclr, names, proba1, iso_pred) ==
  LET e == PredictRaised(t, mdls, sclr, names)
  IN IF e.kind = "exception"
     THEN PredictExcept(e)
     ELSE [kind |-> "response", status |-> 200,
           body |-> PredictResult(t, proba1, iso_pred)]

(***************************************************************************)
(* Gateway: the try/except around the ML call and the combined result,     *)
(* api_predict lines 204-223                                               *)
(***************************************************************************)
\* try: ml_result = requests.post(...).json()
\* except: ml_result = enhanced_fallback_prediction(ml_data)
MlResult(resp, mld) ==
  IF resp.kind = "exception"
  THEN enhanced_fallback_prediction(mld)
  ELSE resp.body

FinalResult(res, details, analysis) ==
  [status |-> 200,
   body   |-> [transaction_details |-> details,
               address_analysis    |-> analysis,
               ml_prediction       |-> res,
               risk_assessment     |->
                 calculate_risk_assessment(res, details, analysis),
               recommendations     |-> generate_recommendations(res, details)]]

(***************************************************************************)
(* Inputs                                                                  *)
(***************************************************************************)
Senders   == {AddrOrdinary, AddrZeroA, AddrEmpty}
Receivers == {AddrOrdinary, AddrAllF, AddrCdeUpper}

\* (gas_limit, gas_price_gwei); 100004 * 100 gwei is 0.0100004 ETH, which is
\* above 0.01 ETH and is reported, rounded to 6 decimals, as 0.01
GasInputs == {<<21000, 20>>, <<21000, 60>>, <<21000, 300>>,
              <<100004, 100>>, <<150000, 60>>, <<150000, 300>>}

FullRequests ==
  {[sender_address   |-> s,
    receiver_address |-> r,
    amount           |-> a,
    token_type       |-> tk,
    gas_limit        |-> g[1],
    gas_price_gwei   |-> g[2],
    frequency_24h    |-> f,
    hour_of_day      |-> h] :
     s \in Senders, r \in Receivers, a \in {500, 25000}, tk \in {"ETH", "USDC"},
     g \in GasInputs, f \in {3, 25}, h \in {4, 14}}

\* requests that leave the optional fields to their defaults
DefaultRequests ==
  {[sender_address |-> s, receiver_address |-> r] :
     s \in AllAddresses, r \in AllAddresses}

\* requests at the thresholds of the fallback rules
BoundaryRequests ==
  {[sender_address   |-> AddrOrdinary,
    receiver_address |-> r,
    amount           |-> a,
    token_type       |-> "ETH",
    gas_limit        |-> 21000,
    gas_price_gwei   |-> g,
    frequency_24h    |-> f,
    hour_of_day      |-> h] :
     r \in {AddrOrdinary, AddrAllF}, a \in {10000, 10001}, g \in {100, 101},
     f \in {10, 11}, h \in {5, 6, 22, 23}}

\* requests whose gas fee is at the thresholds 0.005 ETH and 0.01 ETH:
\* exactly at it, above it by less than the reported 6 decimals show, above it
GasThresholdRequests ==
  {[sender_address   |-> AddrOrdinary,
    receiver_address |-> AddrOrdinary,
    amount           |-> a,
    gas_limit        |-> g,
    gas_price_gwei   |-> 100] :
     a \in {10000, 10001}, g \in {50000, 50004, 50010, 100000, 100010}}

\* requests that put the largest and the smallest address risk and gas risk
\* next to each count of fallback rules from 0 to 2.5
AggregationRequests ==
  {[sender_address   |-> s,
    receiver_address |-> r,
    amount           |-> a,
    token_type       |-> "ETH",
    gas_limit        |-> g[1],
    gas_price_gwei   |-> g[2],
    frequency_24h    |-> f,
    hour_of_day      |-> 14] :
     s \in {AddrEmpty, AddrOrdinary}, r \in {AddrZeroUpperF, AddrOrdinary},
     a \in {500, 25000}, g \in {<<21000, 20>>, <<150000, 100>>},
     f \in {3, 25}}

Requests ==
  FullRequests \cup DefaultRequests \cup BoundaryRequests
    \cup GasThresholdRequests \cup AggregationRequests

\* a JSON string that float() and int() cannot convert
NotANumber == "abc"

\* requests with one of the three numeric fields (lines 157, 159, 160) not a
\* number, the other fields left to their defaults
BadNumberRequests ==
  {[k \in {"sender_address", "receiver_address", f} |->
      IF k = f THEN NotANumber ELSE AddrOrdinary] :
     f \in {"amount", "gas_limit", "gas_price_gwei"}}

\* predict_proba[1] of the classifier, and the detector's output
ProbaIllicit == {1000, 4004, 5000, 7004, 9500}
IsoOutputs   == {-1, 1}

(***************************************************************************)
(* ML service: startup_event and train_models                              *)
(***************************************************************************)
\* The service accepts connections.  uvicorn (line 341) runs the startup event
\* first, and exits when it raises; a host that runs no startup event (an
\* ASGI server with lifespan off, a test client used without its context
\* manager) serves the routes of the module as imported, which is the state
\* the guard of predict at line 250 is written for.  lifespan tells the two
\* hosts apart.
\* mutant: the server accepts requests while train_models still runs
Listening_Early ==
  \/ svc_pc \notin {"imported", "exited"}
  \/ ~lifespan /\ svc_pc = "imported"

\* mutant: the server keeps accepting requests after a failed startup
Listening_AfterExit ==
  \/ svc_pc \in {"serving", "exited"}
  \/ ~lifespan /\ svc_pc = "imported"

Listening ==
  \/ svc_pc = "serving"
  \/ ~lifespan /\ svc_pc = "imported"

\* line 142: df, feature_names = generate_synthetic_data(10000)
TrainGenerate ==
  /\ lifespan
  /\ svc_pc = "imported"
  /\ svc_pc' = "generated"
  /\ feature_names' = FeatureNames
  /\ UNCHANGED <<lifespan, models, scaler>>
  /\ UNCHANGED gw_vars
  /\ UNCHANGED <<health_response, gen>>

\* line 154: scaler = StandardScaler()
TrainNewScaler ==
  /\ svc_pc = "generated"
  /\ svc_pc' = "scaler_new"
  /\ scaler' = "unfitted"
  /\ UNCHANGED <<lifespan, models, feature_names>>
  /\ UNCHANGED gw_vars
  /\ UNCHANGED <<health_response, gen>>

\* line 155: scaler.fit_transform(X_train)
TrainFitScaler ==
  /\ svc_pc = "scaler_new"
  /\ svc_pc' = "scaler_fitted"
  /\ scaler' = "fitted"
  /\ UNCHANGED <<lifespan, models, feature_names>>
  /\ UNCHANGED gw_vars
  /\ UNCHANGED <<health_response, gen>>

\* lines 158-185: fit and evaluate both models (locals only)
TrainFitModels ==
  /\ svc_pc = "scaler_fitted"
  /\ svc_pc' = "models_fitted"
  /\ UNCHANGED <<lifespan, models, scaler, feature_names>>
  /\ UNCHANGED gw_vars
  /\ UNCHANGED <<health_response, gen>>

\* line 188: models['random_forest'] = rf_model
TrainStoreRf ==
  /\ svc_pc = "models_fitted"
  /\ svc_pc' = "rf_stored"
  /\ models' = [n \in DOMAIN models \cup {"random_forest"} |-> "fitted"]
  /\ UNCHANGED <<lifespan, scaler, feature_names>>
  /\ UNCHANGED gw_vars
  /\ UNCHANGED <<health_response, gen>>

\* line 189: models['isolation_forest'] = iso_model
TrainStoreIso ==
  /\ svc_pc = "rf_stored"
  /\ svc_pc' = "iso_stored"
  /\ models' = [n \in DOMAIN models \cup {"isolation_forest"} |-> "fitted"]
  /\ UNCHANGED <<lifespan, scaler, feature_names>>
  /\ UNCHANGED gw_vars
  /\ UNCHANGED <<health_response, gen>>

\* lines 191-214: write training_results.json and the pickles, return;
\* line 221: the startup event ends and the server starts to accept requests
TrainSave ==
  /\ svc_pc = "iso_stored"
  /\ svc_pc' = "serving"
  /\ UNCHANGED <<lifespan, models, scaler, feature_names>>
  /\ UNCHANGED gw_vars
  /\ UNCHANGED <<health_response, gen>>

\* a step of train_models raises (data generation, a fit, a file that cannot
\* be written); startup_event logs and re-raises, and the server exits
TrainFail ==
  /\ lifespan
  /\ svc_pc \in {"imported", "scaler_new", "scaler_fitted", "iso_stored"}
  /\ svc_pc' = "exited"
  /\ UNCHANGED <<lifespan, models, scaler, feature_names>>
  /\ UNCHANGED gw_vars
  /\ UNCHANGED <<health_response, gen>>

\* the ML service handles GET /health (lines 236-244)
Health ==
  /\ Listening
  /\ health_response' = [status         |-> "healthy",
                         models         |-> DOMAIN models,
                         feature_count  |-> Len(feature_names),
                         scaler_fitted  |-> scaler # "None"]
  /\ UNCHANGED svc_vars
  /\ UNCHANGED gw_vars
  /\ UNCHANGED gen

(***************************************************************************)
(* Gateway: api_predict                                                    *)
(***************************************************************************)
\* lines 150-151: no session
ApiPredictUnauthenticated ==
  /\ gw_pc = "idle"
  /\ gw_pc' = "done"
  /\ session_ok' = FALSE
  /\ final_result' = [status |-> 401,
                      body |-> [error |-> "Authentication required"]]
  /\ UNCHANGED <<data, transaction_details, address_analysis, ml_data,
                 ml_response, ml_result, ml_calls, fallback_calls>>
  /\ UNCHANGED svc_vars
  /\ UNCHANGED <<health_response, gen>>

\* lines 153-160: float() or int() raises ValueError on a field that is not a
\* number; api_predict does not catch it and Flask answers 500
ApiPredictBadNumber ==
  /\ gw_pc = "idle"
  /\ \E d \in BadNumberRequests : data' = d
  /\ session_ok' = TRUE
  /\ final_result' = [status |-> 500,
                      body |-> [error |-> "Internal Server Error"]]
  /\ gw_pc' = "done"
  /\ UNCHANGED <<transaction_details, address_analysis, ml_data,
                 ml_response, ml_result, ml_calls, fallback_calls>>
  /\ UNCHANGED svc_vars
  /\ UNCHANGED <<health_response, gen>>

\* lines 153-208: parse the request, derive the details, the address analysis
\* and the feature payload, and post the payload to the ML service
ApiPredictCall ==
  /\ gw_pc = "idle"
  /\ \E d \in Requests :
       LET analysis == analyze_addresses(Get(d, "sender_address", <<>>),
                                         Get(d, "receiver_address", <<>>))
       IN /\ data' = d
          /\ transaction_details' = TransactionDetails(d)
          /\ address_analysis' = analysis
          /\ ml_data' = MlData(d, analysis)
  /\ session_ok' = TRUE
  /\ gw_pc' = "calling"
  /\ ml_calls' = ml_calls + 1
  /\ UNCHANGED <<ml_response, ml_result, final_result, fallback_calls>>
  /\ UNCHANGED svc_vars
  /\ UNCHANGED <<health_response, gen>>

\* the ML service handles POST /predict (lines 246-328)
Predict ==
  /\ gw_pc = "calling"
  /\ ml_response = NoValue
  /\ Listening
  /\ \E proba1 \in ProbaIllicit, iso_pred \in IsoOutputs :
       ml_response' = PredictResponse(ml_data, models, scaler, feature_names,
                                      proba1, iso_pred)
  /\ UNCHANGED <<gw_pc, session_ok, data, transaction_details, address_analysis,
                 ml_data, ml_result, final_result, ml_calls, fallback_calls>>
  /\ UNCHANGED svc_vars
  /\ UNCHANGED <<health_response, gen>>

\* requests.post raises: nothing listens on port 8000
ConnectionRefused ==
  /\ gw_pc = "calling"
  /\ ml_response = NoValue
  /\ ~Listening
  /\ ml_response' = [kind |-> "exception", error |-> "ConnectionError"]
  /\ UNCHANGED <<gw_pc, session_ok, data, transaction_details, address_analysis,
                 ml_data, ml_result, final_result, ml_calls, fallback_calls>>
  /\ UNCHANGED svc_vars
  /\ UNCHANGED <<health_response, gen>>

\* requests.post raises: no response within timeout=10
Timeout ==
  /\ gw_pc = "calling"
  /\ ml_response = NoValue
  /\ ml_response' = [kind |-> "exception", error |-> "Timeout"]
  /\ UNCHANGED <<gw_pc, session_ok, data, transaction_details, address_analysis,
                 ml_data, ml_result, final_result, ml_calls, fallback_calls>>
  /\ UNCHANGED svc_vars
  /\ UNCHANGED <<health_response, gen>>

\* mutant: a failed call is posted again instead of falling back
ApiPredictReturn_Retry ==
  /\ gw_pc = "calling"
  /\ ml_response # NoValue
  /\ IF ml_response.kind = "exception"
     THEN /\ ml_response' = NoValue
          /\ ml_calls' = ml_calls + 1
          /\ UNCHANGED <<gw_pc, ml_result, final_result>>
     ELSE LET res == MlResult(ml_response, ml_data)
          IN /\ ml_result' = res
             /\ final_result' =
                  FinalResult(res, transaction_details, address_analysis)
             /\ gw_pc' = "done"
             /\ UNCHANGED <<ml_response, ml_calls>>
  /\ UNCHANGED <<session_ok, data, transaction_details, address_analysis,
                 ml_data, fallback_calls>>
  /\ UNCHANGED svc_vars
  /\ UNCHANGED <<health_response, gen>>

\* lines 209-223: take the response or fall back, combine, return
ApiPredictReturn ==
  /\ gw_pc = "calling"
  /\ ml_response # NoValue
  /\ LET res == MlResult(ml_response, ml_data)
     IN /\ ml_result' = res
        /\ final_result' = FinalResult(res, transaction_details, address_analysis)
  /\ fallback_calls' = IF ml_response.kind = "exception"
                       THEN fallback_calls + 1 ELSE fallback_calls
  /\ gw_pc' = "done"
  /\ UNCHANGED <<session_ok, data, transaction_details, address_analysis,
                 ml_data, ml_response, ml_calls>>
  /\ UNCHANGED svc_vars
  /\ UNCHANGED <<health_response, gen>>

\* the client has its response; the gateway waits for the next request
NextRequest ==
  /\ gw_pc = "done"
  /\ gw_pc' = "idle"
  /\ session_ok' = FALSE
  /\ data' = NoValue
  /\ transaction_details' = NoValue
  /\ address_analysis' = NoValue
  /\ ml_data' = NoValue
  /\ ml_response' = NoValue
  /\ ml_result' = NoValue
  /\ final_result' = NoValue
  /\ ml_calls' = 0
  /\ fallback_calls' = 0
  /\ UNCHANGED svc_vars
  /\ UNCHANGED <<health_response, gen>>

Init ==
  /\ lifespan \in BOOLEAN
  /\ svc_pc = "imported"
  /\ models = NoModels
  /\ scaler = "None"
  /\ feature_names = <<>>
  /\ gw_pc = "idle"
  /\ session_ok = FALSE
  /\ data = NoValue
  /\ transaction_details = NoValue
  /\ address_analysis = NoValue
  /\ ml_data = NoValue
  /\ ml_response = NoValue
  /\ ml_result = NoValue
  /\ final_result = NoValue
  /\ ml_calls = 0
  /\ fallback_calls = 0
  /\ health_response = NoValue
  /\ gen = GenIdle

Next ==
  \/ TrainGenerate
  \/ TrainNewScaler
  \/ TrainFitScaler
  \/ TrainFitModels
  \/ TrainStoreRf
  \/ TrainStoreIso
  \/ TrainSave
  \/ TrainFail
  \/ Health
  \/ ApiPredictUnauthenticated
  \/ ApiPredictBadNumber
  \/ ApiPredictCall
  \/ Predict
  \/ ConnectionRefused
  \/ Timeout
  \/ ApiPredictReturn
  \/ NextRequest

Spec == Init /\ [][Next]_vars

\* requests.post(..., timeout=10) (lines 206-208) raises when no response has
\* come in time, and the handler runs on to its return statement
FairSpec == Spec /\ WF_vars(Timeout) /\ WF_vars(ApiPredictReturn)

(***************************************************************************)
(* generate_synthetic_data (ML service, lines 42-133)                      *)
(***************************************************************************)
\* n_samples
NSamples == 3

normal_samples  == (NSamples * 85) \div 100
illicit_samples == NSamples - normal_samples

\* values the samplers can return: gas prices below, at and above 50
NormalGasPrices  == {20, 50, 51}
IllicitGasPrices == {5, 50, 120}
NoisePercents    == {-1, 1}

\* the transaction dict of one loop iteration, flag assigned (lines 58-72,
\* 79-115)
Transaction(amount, gas_price, is_contract, token) ==
  [amount                |-> amount,
   frequency_24h         |-> 3,
   unique_counterparties |-> 2,
   hour_of_day           |-> 12,
   gas_price             |-> gas_price,
   is_contract           |-> is_contract,
   account_age_days      |-> 365,
   balance               |-> 1000,
   token_type_numeric    |-> token,
   high_gas_fee          |-> TrainingHighGasFee(gas_price)]

\* where the function stands once k rows have been appended
GenPcAfter(k) ==
  IF k < normal_samples THEN "normal"
  ELSE IF k < NSamples THEN "illicit"
  ELSE "frame"

gen_others ==
  <<lifespan, svc_pc, models, scaler, feature_names,
    gw_pc, session_ok, data, transaction_details, address_analysis,
    ml_data, ml_response, ml_result, final_result,
    ml_calls, fallback_calls, health_response>>

\* lines 46-54: the call, with empty features and labels
GenStart ==
  /\ gen.pc = "idle"
  /\ gen' = [pc |-> GenPcAfter(0), features |-> <<>>, labels |-> <<>>,
             df |-> <<>>]
  /\ UNCHANGED gen_others

\* lines 57-75: one iteration of the loop over normal_samples
GenNormalRow ==
  /\ gen.pc = "normal"
  /\ \E g \in NormalGasPrices :
       gen' = [gen EXCEPT
                 !.features = Append(@, Transaction(200, g, 0, 0)),
                 !.labels   = Append(@, 0),
                 !.pc       = GenPcAfter(Len(gen.features) + 1)]
  /\ UNCHANGED gen_others

\* lines 78-118: one iteration of the loop over illicit_samples
GenIllicitRow ==
  /\ gen.pc = "illicit"
  /\ \E g \in IllicitGasPrices :
       gen' = [gen EXCEPT
                 !.features = Append(@, Transaction(10000, g, 1, 1)),
                 !.labels   = Append(@, 1),
                 !.pc       = GenPcAfter(Len(gen.features) + 1)]
  /\ UNCHANGED gen_others

\* lines 121-126: df = pd.DataFrame(features, columns=feature_names);
\* df['label'] = labels
GenToFrame ==
  /\ gen.pc = "frame"
  /\ gen' = [gen EXCEPT
               !.df = [i \in 1..Len(gen.features) |->
                         [k \in DOMAIN gen.features[i] \cup {"label"} |->
                            IF k = "label" THEN gen.labels[i]
                            ELSE gen.features[i][k]]],
               !.pc = "noise_amount"]
  /\ UNCHANGED gen_others

\* line 129: df['amount'] += np.random.normal(0, df['amount'] * 0.01)
GenNoiseAmount ==
  /\ gen.pc = "noise_amount"
  /\ \E noise \in [1..Len(gen.df) -> NoisePercents] :
       gen' = [gen EXCEPT
                 !.df = [i \in 1..Len(gen.df) |->
                           [gen.df[i] EXCEPT
                              !.amount = @ + (@ * noise[i]) \div 100]],
                 !.pc = "noise_balance"]
  /\ UNCHANGED gen_others

\* line 130: df['balance'] += np.random.normal(0, df['balance'] * 0.01)
GenNoiseBalance ==
  /\ gen.pc = "noise_balance"
  /\ \E noise \in [1..Len(gen.df) -> NoisePercents] :
       gen' = [gen EXCEPT
                 !.df = [i \in 1..Len(gen.df) |->
                           [gen.df[i] EXCEPT
                              !.balance = @ + (@ * noise[i]) \div 100]],
                 !.pc = "returned"]
  /\ UNCHANGED gen_others

NextGen ==
  \/ GenStart
  \/ GenNormalRow
  \/ GenIllicitRow
  \/ GenToFrame
  \/ GenNoiseAmount
  \/ GenNoiseBalance

SpecGen == Init /\ [][NextGen]_vars

(***************************************************************************)
(* Properties                                                              *)
(***************************************************************************)
\* api_predict has returned its combined result for an authenticated request
Answered == gw_pc = "done" /\ session_ok /\ final_result.status = 200

\* the ML service answered with a prediction
EnsembleAnswered == ml_response.kind = "response" /\ ml_response.status = 200

FallbackTag == "enhanced_fallback_model"
EnsembleTag == "ml_service"

PredictionResultFields ==
  {"prediction", "confidence", "risk_score", "risk_factors", "models",
   "source", "timestamp"}

\* C1: whenever the ensemble call yields no prediction (connection failure,
\* timeout, or the service reporting that no models are loaded), the
\* ml_prediction of the response is the Fallback Predictor's result and its
\* source is the fallback tag.
C1_FallbackWheneverNoPrediction ==
  (Answered /\ ~EnsembleAnswered) =>
     /\ final_result.body.ml_prediction = enhanced_fallback_prediction(ml_data)
     /\ "source" \in DOMAIN final_result.body.ml_prediction
     /\ final_result.body.ml_prediction.source = FallbackTag

\* C2: for every outcome of the ensemble call, the ml_prediction of the
\* response has all PredictionResult fields and a source that is the ensemble
\* tag or the fallback tag.
C2_CompleteResultAlways ==
  Answered =>
     /\ PredictionResultFields \subseteq DOMAIN final_result.body.ml_prediction
     /\ final_result.body.ml_prediction.source \in {EnsembleTag, FallbackTag}

\* the level the thresholds 0.4 and 0.7 give a score (lower-exclusive)
C3_LevelOfScore(score) ==
  IF score > 7000 THEN "HIGH" ELSE IF score > 4000 THEN "MEDIUM" ELSE "LOW"

\* C3: the returned risk_level is the level the thresholds give the returned
\* overall_risk_score: HIGH iff > 0.7, MEDIUM iff in (0.4, 0.7], LOW iff <= 0.4.
C3_LevelIsFunctionOfReturnedScore ==
  Answered =>
     final_result.body.risk_assessment.risk_level =
       C3_LevelOfScore(final_result.body.risk_assessment.overall_risk_score)

\* the three reported components are the ones the inputs give: the ML risk
\* score (0 when the ml_prediction has none), the mean of the two address
\* risks, and 0.1 iff the reported gas fee exceeds 0.01 ETH
C4_Components(b) ==
  /\ b.risk_assessment.ml_risk =
       (IF "risk_score" \in DOMAIN b.ml_prediction
        THEN b.ml_prediction.risk_score ELSE 0)
  /\ 2 * b.risk_assessment.address_risk =
       b.address_analysis.sender_risk_score
         + b.address_analysis.receiver_risk_score
  /\ b.risk_assessment.gas_risk =
       (IF b.transaction_details.gas_fee_eth > 10000 THEN 1000 ELSE 0)

\* ml_risk + 0.3 * address_risk + gas_risk, clamped to [0,1], in units of
\* 1/(10 * Scale) so that the product with 0.3 is exact
C4_Clamped10(ra) ==
  LET sum == 10 * ra.ml_risk + 3 * ra.address_risk + 10 * ra.gas_risk
  IN IF sum > 10 * Scale THEN 10 * Scale ELSE IF sum < 0 THEN 0 ELSE sum

C5_EnsembleIsOr ==
  EnsembleAnswered =>
     LET b == ml_response.body
     IN /\ b.prediction \in {0, 1}
        /\ b.prediction = 1 <=>
             (b.models.random_forest.prediction = 1
                \/ b.models.isolation_forest.prediction = 1)

\* the detector alone makes the verdict illicit
C5_Witness ==
  /\ EnsembleAnswered
  /\ ml_response.body.models.random_forest.prediction = 0
  /\ ml_response.body.models.isolation_forest.prediction = 1
  /\ ml_response.body.prediction = 1

\* C6: risk_score is the classifier's probability of the illicit class and
\* confidence the larger class probability, whatever the detector and the
\* ensemble say; so confidence >= 0.5 and risk_score is confidence or
\* 1 - confidence.
C6_ScoreAndConfidenceFromClassifier ==
  EnsembleAnswered =>
     LET b == ml_response.body
         p == b.models.random_forest.probabilities
     IN /\ b.risk_score = p.illicit
        /\ b.confidence = Max(p.normal, p.illicit)
        /\ b.confidence >= 5000
        /\ b.risk_score \in {b.confidence, Scale - b.confidence}

\* the verdict is illicit on the detector's vote while the classifier's
\* probability of illicit, and with it risk_score, stays below 0.5
C6_Witness ==
  /\ EnsembleAnswered
  /\ ml_response.body.prediction = 1
  /\ ml_response.body.models.isolation_forest.prediction = 1
  /\ ml_response.body.risk_score = 1000
  /\ ml_response.body.confidence = 9000

\* C7: for the same feature inputs the fallback result and the ensemble result
\* have the same field sets, at the top level and inside models.random_forest
\* and models.isolation_forest.
C7_SameFieldSets ==
  EnsembleAnswered =>
     LET e == ml_response.body
         f == enhanced_fallback_prediction(ml_data)
     IN /\ DOMAIN e = DOMAIN f
        /\ DOMAIN e.models = DOMAIN f.models
        /\ DOMAIN e.models.isolation_forest = DOMAIN f.models.isolation_forest
        /\ DOMAIN e.models.random_forest = DOMAIN f.models.random_forest

\* the fallback supplied the ml_prediction
FellBack == Answered /\ ml_response.kind = "exception"

\* twice the risk_factor_count the rules give a feature payload
C8_Count2(d) ==
    (IF d.amount > 10000 THEN 2 ELSE 0)
  + (IF d.hour_of_day < 6 \/ d.hour_of_day > 22 THEN 2 ELSE 0)
  + (IF d.frequency_24h > 10 THEN 2 ELSE 0)
  + (IF d.gas_price > 100 THEN 2 ELSE 0)
  + (IF d.is_contract THEN 1 ELSE 0)

\* C8: the fallback returns prediction = 1 iff count >= 2, confidence =
\* min(0.7 + 0.1 * min(count, 3), 0.95) and risk_score = min(count / 4, 1);
\* with count >= 3 the prediction is illicit and confidence is 0.95, and
\* confidence always lies in [0.7, 0.95].
C8_FallbackFormula ==
  FellBack =>
     LET c2 == C8_Count2(ml_data)
         r  == ml_result
     IN /\ r.prediction = (IF c2 >= 4 THEN 1 ELSE 0)
        /\ 10 * r.confidence = Min(70000 + 5000 * Min(c2, 6), 95000)
        /\ 8 * r.risk_score = Min(c2 * Scale, 8 * Scale)
        /\ (c2 >= 6 => r.prediction = 1 /\ r.confidence = 9500)
        /\ r.confidence \in 7000..9500

\* the fallback answered for amount 25000, hour 4, frequency 25, gas price 300
\* and a contract-like receiver: count 4.5, illicit, confidence at the cap
C8_Witness ==
  /\ FellBack
  /\ C8_Count2(ml_data) = 9
  /\ ml_result.prediction = 1
  /\ ml_result.confidence = 9500
  /\ ml_result.risk_score = Scale

\* C9: the high_gas_fee of the feature payload the gateway builds is 1 iff
\* gas_price > 50, the derivation the models were fitted against.
C9_HighGasFeeAsTrained ==
  (gw_pc \in {"calling", "done"} /\ session_ok /\ ml_data # NoValue) =>
     ml_data.high_gas_fee = TrainingHighGasFee(ml_data.gas_price)

\* C10: an inference call made while no trained snapshot exists ends with the
\* ModelUnavailable signal (status 503, "Models not loaded"), which differs
\* from the FeatureMismatch signal (status 400), and computes no prediction.
C10_ModelUnavailableSignalled ==
  (ml_response.kind = "response" /\ DOMAIN models = {}) =>
     /\ ml_response.status = 503
     /\ "prediction" \notin DOMAIN ml_response.body

\* the globals of the ML service hold no snapshot (the module as imported)
SnapshotAbsent ==
  /\ DOMAIN models = {}
  /\ scaler = "None"
  /\ feature_names = <<>>

\* the globals of the ML service hold one complete snapshot
SnapshotComplete ==
  /\ DOMAIN models = {"random_forest", "isolation_forest"}
  /\ scaler = "fitted"
  /\ feature_names = FeatureNames

\* what GET /health reports of a snapshot that is absent, or complete
HealthSeesWhole(h) ==
  \/ h.models = {} /\ h.feature_count = 0 /\ ~h.scaler_fitted
  \/ /\ h.models = {"random_forest", "isolation_forest"}
     /\ h.feature_count = 10
     /\ h.scaler_fitted

\* C11: a reader (predict, health) observes either no snapshot or the complete
\* one: whenever the service can answer, scaler, both models and the feature
\* names are all absent or all set; no health response reports a mixture, and
\* no predict response stems from a missing model, an unusable scaler or
\* feature names of another length.
C11_ReadersSeeWholeSnapshot ==
  /\ Listening => (SnapshotAbsent \/ SnapshotComplete)
  /\ health_response # NoValue => HealthSeesWhole(health_response)
  /\ ml_response.kind = "response" =>
       \/ ml_response.status = 200
       \/ ml_response.body.detail = "Models not loaded"

\* after a training run, health reported the complete snapshot and predict
\* answered from it
C11_Witness ==
  /\ lifespan
  /\ health_response # NoValue
  /\ health_response.models = {"random_forest", "isolation_forest"}
  /\ EnsembleAnswered

\* C12: once training has failed the service answers no inference request
\* (nor a health call), it stays down, and no response was ever computed from
\* the globals the failed run left behind.
C12_NoServingAfterTrainingFailure ==
  /\ [](svc_pc = "exited" =>
          /\ ~Listening
          /\ ml_response.kind # "response"
          /\ health_response = NoValue)
  /\ [][svc_pc = "exited" => svc_pc' = "exited"]_vars

\* training failed with the scaler created and not fitted, and a request made
\* afterwards was answered by the fallback
C12_Witness ==
  /\ svc_pc = "exited"
  /\ scaler = "unfitted"
  /\ feature_names = FeatureNames
  /\ DOMAIN models = {}
  /\ FellBack

\* the list the three conditions call for
C13_Expected(illicit, gas, large) ==
  IF ~illicit /\ ~gas /\ ~large
  THEN <<RecRoutine>>
  ELSE    (IF illicit THEN <<RecAlert, RecReview, RecKyc>> ELSE <<>>)
       \o (IF gas THEN <<RecGas>> ELSE <<>>)
       \o (IF large THEN <<RecLarge>> ELSE <<>>)

Analysed == gw_pc \in {"calling", "done"} /\ session_ok /\ address_analysis # NoValue

SenderOf(d)   == Get(d, "sender_address", <<>>)
ReceiverOf(d) == Get(d, "receiver_address", <<>>)

\* the risk the claim gives for an address, in units of 1/Scale
C14_Risk(a) ==
  IF Len(a) = 0
  THEN Scale \div 2
  ELSE LET zeroPrefixed ==
             /\ Len(a) >= 5
             /\ a[1] = "0" /\ a[2] \in {"x", "X"}
             /\ a[3] = "0" /\ a[4] = "0" /\ a[5] = "0"
           distinct == Cardinality({a[i] : i \in 3..Len(a)})
       IN   (IF zeroPrefixed THEN (3 * Scale) \div 10 ELSE 0)
          + (IF distinct < 10 THEN (2 * Scale) \div 10 ELSE 0)

\* C14: calculate_address_risk returns, for every address, a value in [0,1]:
\* 0.5 for an absent or empty address, otherwise 0.3 if the body begins with
\* three zeros after the 0x prefix plus 0.2 if the body has fewer than 10
\* distinct characters; so every zero-prefixed address has risk >= 0.3.
C14_AddressRisk ==
  Analysed =>
    /\ \A side \in {<<SenderOf(data), address_analysis.sender_risk_score>>,
                    <<ReceiverOf(data), address_analysis.receiver_risk_score>>} :
         /\ side[2] = C14_Risk(side[1])
         /\ side[2] >= 0 /\ side[2] <= Scale
         /\ (Len(side[1]) >= 5 /\ SubSeq(side[1], 1, 5) = <<"0", "x", "0", "0", "0">>)
              => side[2] >= (3 * Scale) \div 10
    /\ gw_pc = "done" =>
         final_result.body.address_analysis = address_analysis

\* the 40-character zero-prefixed address sent, and an upper-case one received
C14_Witness ==
  /\ Answered
  /\ SenderOf(data) = AddrZero40
  /\ ReceiverOf(data) = AddrZeroUpperF
  /\ final_result.body.address_analysis.sender_risk_score = Scale \div 2
  /\ final_result.body.address_analysis.receiver_risk_score = Scale \div 2

\* the relatedness the claim gives for two addresses
C15_Related(a, b) ==
  /\ Len(a) > 0 /\ Len(b) > 0
  /\ \A i \in 1..10 :
       /\ (i <= Len(a)) = (i <= Len(b))
       /\ i <= Len(a) => a[i] = b[i]

\* C15: are_addresses_related is symmetric, is false whenever either address
\* is absent or empty, and is otherwise true iff the first 10 characters
\* (0x prefix included) of the two addresses are identical.
C15_RelatedSymmetric ==
  Analysed =>
    LET a == SenderOf(data)
        b == ReceiverOf(data)
    IN /\ address_analysis.addresses_related = C15_Related(a, b)
       /\ address_analysis.addresses_related
            = analyze_addresses(b, a).addresses_related
       /\ (a = <<>> \/ b = <<>>) => ~address_analysis.addresses_related

\* two different addresses with the same first 10 characters, found related
C15_Witness ==
  /\ Answered
  /\ SenderOf(data) = AddrCde
  /\ ReceiverOf(data) = AddrOrdinary
  /\ final_result.body.address_analysis.addresses_related

\* the contract flag the claim gives for an address
C18_IsContract(a) ==
  /\ Len(a) = 42
  /\ a[42] \in {"c", "d", "e", "f", "C", "D", "E", "F"}

\* C18: is_contract_address returns false for an absent or empty address and
\* for one that is not exactly 42 characters long, and otherwise true iff the
\* last character, compared without regard to case, is one of c, d, e, f.
C18_ContractHeuristic ==
  Analysed =>
    /\ address_analysis.sender_is_contract = C18_IsContract(SenderOf(data))
    /\ address_analysis.receiver_is_contract = C18_IsContract(ReceiverOf(data))
    /\ address_analysis.sender_is_contract \in BOOLEAN
    /\ address_analysis.receiver_is_contract \in BOOLEAN
    /\ ml_data.is_contract = address_analysis.receiver_is_contract

\* a short address ending in f is no contract, a 42-character one ending in F is
C18_Witness ==
  /\ Answered
  /\ SenderOf(data) = AddrShortF
  /\ ReceiverOf(data) = AddrZeroUpperF
  /\ ~final_result.body.address_analysis.sender_is_contract
  /\ final_result.body.address_analysis.receiver_is_contract

\* the fields of a TransactionRequest that are not optional context
C16_RequiredFields ==
  {"sender_address", "receiver_address", "amount", "token_type", "gas_limit",
   "gas_price_gwei"}

\* C16: a prediction request with a missing required field or a non-numeric
\* amount, gas_limit or gas_price is rejected with a ValidationError that
\* names the offending field, before any feature extraction, address analysis
\* or predictor call is made for it.
C16_MalformedRejectedBeforeExtraction ==
  (/\ gw_pc = "done"
   /\ session_ok
   /\ \/ C16_RequiredFields \ DOMAIN data # {}
      \/ data \in BadNumberRequests)
  => /\ final_result.status = 400
     /\ "field" \in DOMAIN final_result.body
     /\ address_analysis = NoValue
     /\ ml_data = NoValue
     /\ ml_calls = 0
     /\ fallback_calls = 0

\* C17: for each prediction request the gateway calls the ensemble service at
\* most once and never retries it; the Fallback Predictor runs at most once
\* per request, only after that single call has failed, never before it and
\* never when it returned a response; the call is cut off by its timeout, and
\* every request ends with a response.
C17_OneCallThenFallback ==
  /\ [](/\ ml_calls \in {0, 1}
        /\ fallback_calls \in {0, 1}
        /\ gw_pc = "calling" => ml_calls = 1 /\ fallback_calls = 0
        /\ fallback_calls = 1 =>
             /\ ml_calls = 1
             /\ ml_response.kind = "exception"
             /\ gw_pc = "done"
             /\ final_result.body.ml_prediction.source = FallbackTag
        /\ ml_response.kind = "response" => fallback_calls = 0
        /\ gw_pc = "done" => "status" \in DOMAIN final_result)
  /\ [][ml_calls' > ml_calls => gw_pc = "idle" /\ gw_pc' = "calling"]_vars
  /\ [][fallback_calls' > fallback_calls =>
          gw_pc = "calling" /\ ml_response.kind = "exception" /\ gw_pc' = "done"]_vars
  /\ (gw_pc = "calling") ~> (gw_pc = "done")

\* a request whose single call timed out with the service listening, answered
\* by the fallback
C17_Witness ==
  /\ gw_pc = "done"
  /\ Listening
  /\ ml_calls = 1
  /\ fallback_calls = 1
  /\ ml_response = [kind |-> "exception", error |-> "Timeout"]
  /\ final_result.status = 200

\* no rule of the fallback triggers for the feature payload
C19_Routine(d) ==
  /\ d.amount <= 10000
  /\ d.hour_of_day >= 6 /\ d.hour_of_day <= 22
  /\ d.frequency_24h <= 10
  /\ d.gas_price <= 100
  /\ ~d.is_contract

\* C19: on the fallback path a routine request, one for which no fallback rule
\* triggers, yields prediction = normal and risk_level = LOW, and its
\* recommendation list is the single routine-processing line when the gas fee
\* is at most 0.005 ETH.
C19_RoutineOnFallback ==
  (FellBack /\ C19_Routine(ml_data)) =>
     LET b == final_result.body
     IN /\ b.ml_prediction.prediction = 0
        /\ b.ml_prediction.source = FallbackTag
        /\ b.risk_assessment.risk_level = "LOW"
        /\ b.transaction_details.gas_fee_eth <= 5000
             => b.recommendations = <<RecRoutine>>

\* amount 500, gas price 20, frequency 3, hour 14 between two ordinary
\* addresses, answered by the fallback
C19_Witness ==
  /\ FellBack
  /\ ml_data.amount = 500
  /\ ml_data.gas_price = 20
  /\ ml_data.frequency_24h = 3
  /\ ml_data.hour_of_day = 14
  /\ SenderOf(data) = AddrOrdinary
  /\ ReceiverOf(data) = AddrOrdinary
  /\ final_result.body.risk_assessment.risk_level = "LOW"
  /\ final_result.body.recommendations = <<RecRoutine>>

\* the flag of a row is the one its gas price calls for
C20_FlagOfRow(row) ==
  /\ row.high_gas_fee \in {0, 1}
  /\ row.high_gas_fee = 1 <=> row.gas_price > 50

\* C20: every row produced by generate_synthetic_data, normal and illicit
\* alike, has high_gas_fee = 1 iff its gas_price > 50 and 0 otherwise, and no
\* step after the assignment (the conversion to a table, the noise added to
\* amount and balance) changes gas_price or high_gas_fee.
C20_HighGasFeeFromGasPrice ==
  /\ [](gen.pc # "idle" =>
          /\ \A i \in 1..Len(gen.features) : C20_FlagOfRow(gen.features[i])
          /\ \A i \in 1..Len(gen.df) :
               /\ C20_FlagOfRow(gen.df[i])
               /\ gen.df[i].gas_price = gen.features[i].gas_price
               /\ gen.df[i].high_gas_fee = gen.features[i].high_gas_fee
               /\ gen.df[i].label = gen.labels[i])
  /\ [][gen.pc \notin {"idle", "frame"} =>
          \A i \in 1..Len(gen.features) :
            gen'.features[i] = gen.features[i]]_vars
  /\ [][gen.pc \in {"noise_amount", "noise_balance"} =>
          /\ Len(gen'.df) = Len(gen.df)
          /\ \A i \in 1..Len(gen.df) :
               /\ gen'.df[i].gas_price = gen.df[i].gas_price
               /\ gen'.df[i].high_gas_fee = gen.df[i].high_gas_fee]_vars

\* the returned table holds a flagged normal row and an unflagged illicit row
\* at gas price 50, and the noise has moved an amount and a balance
C20_Witness ==
  /\ gen.pc = "returned"
  /\ Len(gen.df) = NSamples
  /\ \E i \in 1..Len(gen.df) :
       /\ gen.df[i].label = 0 /\ gen.df[i].gas_price = 51
       /\ gen.df[i].high_gas_fee = 1
       /\ gen.df[i].amount # gen.features[i].amount
  /\ \E i \in 1..Len(gen.df) :
       /\ gen.df[i].label = 1 /\ gen.df[i].gas_price = 50
       /\ gen.df[i].high_gas_fee = 0
       /\ gen.df[i].balance # gen.features[i].balance

\* C21: whenever the Fallback Predictor supplies the ml_prediction, verdict
\* and level agree for every combination of address risks and gas fee: an
\* illicit fallback prediction (risk_factor_count >= 2) comes with risk_level
\* MEDIUM or HIGH, never LOW, and a normal one with LOW or MEDIUM, never HIGH.
C21_VerdictAndLevelAgree ==
  FellBack =>
     LET b       == final_result.body
         illicit == C8_Count2(ml_data) >= 4
     IN /\ b.ml_prediction.source = FallbackTag
        /\ b.ml_prediction.prediction = (IF illicit THEN 1 ELSE 0)
        /\ illicit => b.risk_assessment.risk_level \in {"MEDIUM", "HIGH"}
        /\ ~illicit => b.risk_assessment.risk_level \in {"LOW", "MEDIUM"}

\* the largest risk a normal verdict can come with: count 1.5, both address
\* risks 0.5 and a gas fee above 0.01 ETH give 0.375 + 0.15 + 0.1, MEDIUM
C21_Witness ==
  /\ FellBack
  /\ C8_Count2(ml_data) = 3
  /\ final_result.body.ml_prediction.prediction = 0
  /\ final_result.body.risk_assessment.address_risk = Scale \div 2
  /\ final_result.body.risk_assessment.gas_risk = Scale \div 10
  /\ final_result.body.risk_assessment.overall_risk_score = 6250
  /\ final_result.body.risk_assessment.risk_level = "MEDIUM"

====
